---- MODULE Spec2Model ----
(***************************************************************************)
(* Model of the noot-boter-api serverless handlers:                        *)
(*   api/update-batch-products.js  (the "strict" batch handler),           *)
(*   unnamed/part_000              (the "lenient" batch handler),          *)
(*   api/update-single-product.js  (the single-record handler).            *)
(* Text is a sequence of one-character strings; JavaScript values are      *)
(* tagged records so that null, undefined, text, numbers and option        *)
(* references stay distinct.                                               *)
(***************************************************************************)
EXTENDS Integers, Sequences, FiniteSets, TLC

VARIABLES
    variant,        \* which batch handler file runs: "strict" or "lenient"
    request,        \* the incoming request: method and body
    env,            \* process.env.UPDATE_PASSWORD
    schema,         \* what the schema endpoint answers when it succeeds
    view,           \* what the "Batch Update" view holds
    pc,             \* position of the handler
    logDetails,     \* the run's log, NoLog before line 47 ran
    selectOptions,  \* result of getSelectOptions
    mtbLookup,      \* Map baseProductId -> fields
    r,              \* index of the view record the reconcile loop is at
    updatePayloads, \* payloads pushed so far
    i,              \* index of the write loop (0-based, as in the code)
    calls,          \* remote calls issued, in order, with their outcome
    committed,      \* records the remote table has accepted, in order
    response,       \* the response the handler sent, NoResponse before
    thrown,         \* message of the error the run raised, "" when none
    timers,         \* the delay(250) timers started, "running" or "elapsed"
    fin,            \* input of the pure-function harness
    fout,           \* outputs of the pure-function harness
    runs,           \* two concurrent invocations: position, calls, response
    frames          \* the storage holding the locals of those invocations

vars == <<variant, request, env, schema, view, pc, logDetails, selectOptions,
          mtbLookup, r, updatePayloads, i, calls, committed, response, thrown,
          timers, fin, fout, runs, frames>>

----------------------------------------------------------------------------
(* JavaScript values *)

Null == [t |-> "null"]
Undefined == [t |-> "undefined"]
Absent == [t |-> "absent"]          \* a key that was never set on an object
Str(s) == [t |-> "str", s |-> s]
Num(n) == [t |-> "num", n |-> n]
Bool(b) == [t |-> "bool", b |-> b]
Ref(id) == [t |-> "ref", id |-> id] \* the object { id: ... }

IsStr(v) == v.t = "str"

\* JavaScript truthiness of the values used here
Falsy(v) ==
    \/ v.t \in {"null", "undefined", "absent"}
    \/ (v.t = "str" /\ v.s = <<>>)
    \/ (v.t = "num" /\ v.n = 0)
    \/ (v.t = "bool" /\ ~v.b)

----------------------------------------------------------------------------
(* Text primitives *)

UpperChars == <<"A","B","C","D","E","F","G","H","I","J","K","L","M",
                "N","O","P","Q","R","S","T","U","V","W","X","Y","Z">>
LowerChars == <<"a","b","c","d","e","f","g","h","i","j","k","l","m",
                "n","o","p","q","r","s","t","u","v","w","x","y","z">>

toLowerChar(c) ==
    IF \E k \in 1..Len(UpperChars) : UpperChars[k] = c
    THEN LowerChars[CHOOSE k \in 1..Len(UpperChars) : UpperChars[k] = c]
    ELSE c

\* String.prototype.toLowerCase
toLowerCase(s) == [k \in 1..Len(s) |-> toLowerChar(s[k])]

\* the regular expression class \s
IsWhitespace(c) == c \in {" ", "\t", "\n"}

\* the regular expression class \d
IsDigit(c) == c \in {"0","1","2","3","4","5","6","7","8","9"}

\* String.prototype.includes
includes(s, sub) ==
    \E k \in 0..(Len(s) - Len(sub)) :
        \A j \in 1..Len(sub) : s[k + j] = sub[j]

\* s.replace(/\s/g, '')
RECURSIVE stripWhitespace(_)
stripWhitespace(s) ==
    IF s = <<>> THEN <<>>
    ELSE IF IsWhitespace(Head(s)) THEN stripWhitespace(Tail(s))
    ELSE <<Head(s)>> \o stripWhitespace(Tail(s))

\* normalize = (str) => (str || '').replace(/\s/g, '').toLowerCase()
normalize(v) ==
    IF Falsy(v) THEN <<>> ELSE toLowerCase(stripWhitespace(v.s))

----------------------------------------------------------------------------
(* Variant rule engine *)

\* does /-\s*(z\d+|nb\d+)$/ match s with the hyphen at position h and the
\* captured group starting at position g
SuffixMatchAt(s, h, g) ==
    /\ s[h] = "-"
    /\ h < g
    /\ \A k \in (h + 1)..(g - 1) : IsWhitespace(s[k])
    /\ \/ /\ s[g] = "z"
          /\ g + 1 <= Len(s)
          /\ \A k \in (g + 1)..Len(s) : IsDigit(s[k])
       \/ /\ g + 1 <= Len(s)
          /\ s[g] = "n"
          /\ s[g + 1] = "b"
          /\ g + 2 <= Len(s)
          /\ \A k \in (g + 2)..Len(s) : IsDigit(s[k])

HasSuffixMatch(s) ==
    \E h \in 1..Len(s) : \E g \in 1..Len(s) : SuffixMatchAt(s, h, g)

\* nameMatch ? nameMatch[1] : null  -- the leftmost match's group, as text
variantSuffix(s) ==
    IF HasSuffixMatch(s)
    THEN LET h == CHOOSE h \in 1..Len(s) :
                    /\ \E g \in 1..Len(s) : SuffixMatchAt(s, h, g)
                    /\ \A h2 \in 1..(h - 1) :
                          ~ \E g \in 1..Len(s) : SuffixMatchAt(s, h2, g)
             g == CHOOSE g \in 1..Len(s) : SuffixMatchAt(s, h, g)
         IN  Str(SubSeq(s, g, Len(s)))
    ELSE Null

\* an own property of the master record's fields, undefined when missing
Field(fields, name) ==
    IF name \in DOMAIN fields THEN fields[name] ELSE Undefined

Triple(p, s, w) == [packageSize |-> p, sellingPrice |-> s, weightGrams |-> w]

L450gBag == <<"4","5","0","g"," ","B","a","g">>
L1000gBag == <<"1","0","0","0","g"," ","B","a","g">>
L1kgBag == <<"1","k","g"," ","B","a","g">>
L175gJar == <<"1","7","5","g"," ","J","a","r">>
L365gJar == <<"3","6","5","g"," ","J","a","r">>

Cz450 == <<"z","4","5","0">>
Cz1000 == <<"z","1","0","0","0">>
Cnb175 == <<"n","b","1","7","5">>
Cnb365 == <<"n","b","3","6","5">>

StartsWith(s, pre) ==
    Len(pre) <= Len(s) /\ SubSeq(s, 1, Len(pre)) = pre

\* the strict file's rule comparing the code by its beginning only
variantRuleStrictPrefix(internalName, mtbRecordFields) ==
    LET suffix == variantSuffix(internalName) IN
    IF IsStr(suffix) /\ StartsWith(suffix.s, Cz450)
    THEN Triple(Str(L450gBag), Field(mtbRecordFields, "Verkoop450g"), Num(600))
    ELSE IF IsStr(suffix) /\ StartsWith(suffix.s, Cz1000)
    THEN Triple(Str(L1000gBag), Field(mtbRecordFields, "Verkoop1kg"), Num(1250))
    ELSE IF IsStr(suffix) /\ StartsWith(suffix.s, Cnb175)
    THEN Triple(Str(L175gJar), Field(mtbRecordFields, "NutButter175g"), Num(400))
    ELSE IF IsStr(suffix) /\ StartsWith(suffix.s, Cnb365)
    THEN Triple(Str(L365gJar), Field(mtbRecordFields, "NutButter365g"), Num(750))
    ELSE Triple(Null, Null, Null)

\* api/update-batch-products.js
variantRuleStrict(internalName, mtbRecordFields) ==
    LET suffix == variantSuffix(internalName) IN
    IF suffix = Str(Cz450)
    THEN Triple(Str(L450gBag), Field(mtbRecordFields, "Verkoop450g"), Num(600))
    ELSE IF suffix = Str(Cz1000)
    THEN Triple(Str(L1000gBag), Field(mtbRecordFields, "Verkoop1kg"), Num(1250))
    ELSE IF suffix = Str(Cnb175)
    THEN Triple(Str(L175gJar), Field(mtbRecordFields, "NutButter175g"), Num(400))
    ELSE IF suffix = Str(Cnb365)
    THEN Triple(Str(L365gJar), Field(mtbRecordFields, "NutButter365g"), Num(750))
    ELSE Triple(Null, Null, Null)

\* unnamed/part_000
variantRuleLenient(internalName, mtbRecordFields) ==
    LET suffix == variantSuffix(internalName) IN
    IF suffix = Str(Cz450)
    THEN Triple(Str(L450gBag), Field(mtbRecordFields, "Verkoop450g"), Num(600))
    ELSE IF suffix = Str(Cz1000)
    THEN Triple(Str(L1000gBag), Field(mtbRecordFields, "Verkoop1kg"), Num(1250))
    ELSE IF suffix = Str(Cnb175)
    THEN Triple(Str(L175gJar), Field(mtbRecordFields, "NutButter175g"), Num(400))
    ELSE IF suffix = Str(Cnb365)
    THEN Triple(Str(L365gJar), Field(mtbRecordFields, "NutButter365g"), Num(750))
    ELSE Triple(Null, Null, Null)

\* api/update-single-product.js
variantRuleSingle(internalName, mtbRecordFields) ==
    LET suffix == variantSuffix(internalName) IN
    IF suffix = Str(Cz450)
    THEN Triple(Str(L450gBag), Field(mtbRecordFields, "Verkoop450g"), Num(600))
    ELSE IF suffix = Str(Cz1000)
    THEN Triple(Str(L1kgBag), Field(mtbRecordFields, "Verkoop1kg"), Num(1250))
    ELSE IF suffix = Str(Cnb175)
    THEN Triple(Str(L175gJar), Field(mtbRecordFields, "NutButter175g"), Num(400))
    ELSE IF suffix = Str(Cnb365)
    THEN Triple(Str(L365gJar), Field(mtbRecordFields, "NutButter365g"), Num(750))
    ELSE Triple(Null, Null, Null)

variantRule(file, internalName, mtbRecordFields) ==
    CASE file = "strict" -> variantRuleStrict(internalName, mtbRecordFields)
      [] file = "lenient" -> variantRuleLenient(internalName, mtbRecordFields)
      [] file = "single" -> variantRuleSingle(internalName, mtbRecordFields)

----------------------------------------------------------------------------
(* Classifier *)

TBag == <<"B","a","g">>
TJar == <<"J","a","r">>
Tmix == <<"m","i","x">>
TNutBag == <<"N","u","t"," ","B","a","g">>
TNutButterJar == <<"N","u","t"," ","B","u","t","t","e","r"," ","J","a","r">>
TNutButters == <<"N","u","t"," ","B","u","t","t","e","r","s">>
TMixes == <<"M","i","x","e","s">>
TWholeNuts == <<"W","h","o","l","e"," ","N","u","t","s">>

\* packageSize?.includes("Bag") ... else packageSize?.includes("Jar")
productTypeOf(packageSize) ==
    IF IsStr(packageSize) /\ includes(packageSize.s, TBag) THEN Str(TNutBag)
    ELSE IF IsStr(packageSize) /\ includes(packageSize.s, TJar) THEN Str(TNutButterJar)
    ELSE Null

\* the text the category rule looks at: group?.toLowerCase() || ''
groupTextOf(groupName) ==
    IF IsStr(groupName) THEN toLowerCase(groupName.s) ELSE <<>>

\* the category rule with its first two tests in the other order
categoryOfMixFirst(productType, baseProductGroupText) ==
    IF includes(baseProductGroupText, Tmix) THEN Str(TMixes)
    ELSE IF productType = Str(TNutButterJar) THEN Str(TNutButters)
    ELSE Str(TWholeNuts)

categoryOf(productType, baseProductGroupText) ==
    IF productType = Str(TNutButterJar) THEN Str(TNutButters)
    ELSE IF includes(baseProductGroupText, Tmix) THEN Str(TMixes)
    ELSE Str(TWholeNuts)

----------------------------------------------------------------------------
(* Allergen extractor *)

IsUpper(c) == \E k \in 1..Len(UpperChars) : UpperChars[k] = c

toUpperChar(c) ==
    IF \E k \in 1..Len(LowerChars) : LowerChars[k] = c
    THEN UpperChars[CHOOSE k \in 1..Len(LowerChars) : LowerChars[k] = c]
    ELSE c

\* the regular expression class \w
IsWordChar(c) ==
    \/ IsUpper(c)
    \/ \E k \in 1..Len(LowerChars) : LowerChars[k] = c
    \/ IsDigit(c)
    \/ c = "_"

\* the assertion \b just before position p (p = Len(s) + 1 is the end)
WordBoundary(s, p) ==
    (p > 1 /\ IsWordChar(s[p - 1])) # (p <= Len(s) /\ IsWordChar(s[p]))

\* [A-Z\s]+ taken greedily: the last position of the run that follows e
RECURSIVE RunEnd(_, _)
RunEnd(s, e) ==
    IF e + 1 <= Len(s) /\ (IsUpper(s[e + 1]) \/ IsWhitespace(s[e + 1]))
    THEN RunEnd(s, e + 1)
    ELSE e

\* the run given back one character at a time until \b holds after it;
\* 0 when the run would become empty
RECURSIVE Backtrack(_, _, _)
Backtrack(s, a, e) ==
    IF e <= a THEN 0
    ELSE IF WordBoundary(s, e + 1) THEN e
    ELSE Backtrack(s, a, e - 1)

\* end of the match of /\b([A-Z][A-Z\s]+)\b/ that starts at a, 0 when none
MatchEndAt(s, a) ==
    IF WordBoundary(s, a) /\ IsUpper(s[a])
    THEN Backtrack(s, a, RunEnd(s, a))
    ELSE 0

\* the matches with every repeated match dropped
RECURSIVE allergenMatchesDedup(_, _)
allergenMatchesDedup(s, from) ==
    IF from > Len(s) THEN <<>>
    ELSE IF MatchEndAt(s, from) > 0
    THEN LET rest == allergenMatchesDedup(s, MatchEndAt(s, from) + 1)
             m == SubSeq(s, from, MatchEndAt(s, from))
         IN  <<m>> \o SelectSeq(rest, LAMBDA x : x # m)
    ELSE allergenMatchesDedup(s, from + 1)

\* ingredientsText.match(/\b([A-Z][A-Z\s]+)\b/g) || [], scanning from `from`
RECURSIVE allergenMatches(_, _)
allergenMatches(s, from) ==
    IF from > Len(s) THEN <<>>
    ELSE IF MatchEndAt(s, from) > 0
    THEN <<SubSeq(s, from, MatchEndAt(s, from))>>
            \o allergenMatches(s, MatchEndAt(s, from) + 1)
    ELSE allergenMatches(s, from + 1)

\* String.prototype.trim
RECURSIVE trim(_)
trim(s) ==
    IF s = <<>> THEN <<>>
    ELSE IF IsWhitespace(Head(s)) THEN trim(Tail(s))
    ELSE IF IsWhitespace(s[Len(s)]) THEN trim(SubSeq(s, 1, Len(s) - 1))
    ELSE s

\* batch files: t.replace(/^\w/, c => c.toUpperCase())
capitalizeBatch(t) ==
    IF t # <<>> /\ IsWordChar(t[1])
    THEN <<toUpperChar(t[1])>> \o Tail(t)
    ELSE t

\* single-record file: t.charAt(0).toUpperCase() + t.slice(1)
capitalizeSingle(t) ==
    IF t = <<>> THEN <<>> ELSE <<toUpperChar(t[1])>> \o Tail(t)

\* mtbRecordFields.Ingredients || ""
ingredientsTextOf(ingredients) ==
    IF Falsy(ingredients) THEN <<>> ELSE ingredients.s

\* updates.allergens of the batch files: a list of { name }
allergensBatch(ingredients) ==
    LET ms == allergenMatches(ingredientsTextOf(ingredients), 1) IN
    [k \in DOMAIN ms |-> [name |-> Str(capitalizeBatch(toLowerCase(trim(ms[k]))))]]

\* updates.allergens of the single-record file: a list of names
allergensSingle(ingredients) ==
    LET ms == allergenMatches(ingredientsTextOf(ingredients), 1) IN
    [k \in DOMAIN ms |-> Str(capitalizeSingle(toLowerCase(trim(ms[k]))))]

----------------------------------------------------------------------------
(* Option resolver *)

SptTableName == "SPT - Sellable Product Table"

\* new Map(pairs): a later pair with the same key replaces an earlier one
MapOf(pairs) ==
    [k \in {pairs[j].key : j \in DOMAIN pairs} |->
        LET last == CHOOSE j \in DOMAIN pairs :
                        /\ pairs[j].key = k
                        /\ \A j2 \in DOMAIN pairs : pairs[j2].key = k => j2 <= j
        IN  pairs[last].val]

\* the key a choice is stored under: normalize(choice.name) in the strict
\* handler, choice.name itself in the lenient one
choiceKey(file, name) ==
    IF file = "strict" THEN normalize(Str(name)) ELSE name

IsSelect(field) == field.type \in {"singleSelect", "multipleSelects"}

TableFound(schemaJson, tableName) ==
    \E k \in DOMAIN schemaJson.tables : schemaJson.tables[k].name = tableName

\* schema.tables.find(t => t.name === tableName)
FindTable(schemaJson, tableName) ==
    schemaJson.tables[CHOOSE k \in DOMAIN schemaJson.tables :
        /\ schemaJson.tables[k].name = tableName
        /\ \A k2 \in 1..(k - 1) : schemaJson.tables[k2].name # tableName]

\* the optionsMap getSelectOptions returns once the table was found
getSelectOptions(file, schemaJson, tableName) ==
    LET table == FindTable(schemaJson, tableName)
        sel == {k \in DOMAIN table.fields : IsSelect(table.fields[k])}
        lastOf(name) == CHOOSE k \in sel :
                            /\ table.fields[k].name = name
                            /\ \A k2 \in sel : table.fields[k2].name = name => k2 <= k
    IN  [name \in {table.fields[k].name : k \in sel} |->
            MapOf([j \in DOMAIN table.fields[lastOf(name)].choices |->
                     [key |-> choiceKey(file, table.fields[lastOf(name)].choices[j].name),
                      val |-> table.fields[lastOf(name)].choices[j].id]])]

\* selectOptions.<field>?.has(key)
Has(options, fieldName, key) ==
    fieldName \in DOMAIN options /\ key \in DOMAIN options[fieldName]

\* strict handler: { id } when the normalized text is a key, else the field
\* is not set
resolveStrict(options, fieldName, value) ==
    IF Has(options, fieldName, normalize(value))
    THEN Ref(options[fieldName][normalize(value)])
    ELSE Absent

\* lenient handler: { id } when the text is truthy and is a key as it stands
resolveLenient(options, fieldName, value, fallback) ==
    IF ~Falsy(value) /\ Has(options, fieldName, value.s)
    THEN Ref(options[fieldName][value.s])
    ELSE fallback

----------------------------------------------------------------------------
(* Record reconciler *)

\* mtbRecordFields.baseProductGroup?.name
groupNameOf(mtbRecordFields) ==
    LET g == Field(mtbRecordFields, "baseProductGroup")
    IN  IF g.t = "obj" THEN g.name ELSE Undefined

\* x || false
OrFalse(v) == IF Falsy(v) THEN Bool(FALSE) ELSE v

\* text of a value inside a template literal
TemplateText(v) ==
    IF IsStr(v) THEN v.s
    ELSE IF v.t = "null" THEN <<"n","u","l","l">>
    ELSE <<"u","n","d","e","f","i","n","e","d">>

imageUrlOf(sptId) ==
    Str(<<"/","i","m","a","g","e","s","/">> \o TemplateText(sptId)
        \o <<".","j","p","g">>)

\* the updates object of one record, after the variant rule produced v
updatesOf(file, options, internalName, sptId, f, v) ==
    LET productType == productTypeOf(v.packageSize)
        category == categoryOf(productType, groupTextOf(groupNameOf(f)))
    IN  [packageSize |->
            IF file = "strict"
            THEN resolveStrict(options, "packageSize", v.packageSize)
            ELSE resolveLenient(options, "packageSize", v.packageSize, v.packageSize),
         sellingPrice |-> v.sellingPrice,
         weightGrams |-> v.weightGrams,
         productType |->
            IF file = "strict"
            THEN resolveStrict(options, "productType", productType)
            ELSE resolveLenient(options, "productType", productType, Absent),
         category |->
            IF file = "strict"
            THEN resolveStrict(options, "category", category)
            ELSE resolveLenient(options, "category", category, Absent),
         baseProductGroup |->
            IF file = "strict"
            THEN resolveStrict(options, "baseProductGroup", groupNameOf(f))
            ELSE Absent,
         countryOfOrigin |->
            IF file = "strict"
            THEN resolveStrict(options, "countryOfOrigin", Field(f, "countryOfOrigin"))
            ELSE Field(f, "countryOfOrigin"),
         allergens |-> allergensBatch(Field(f, "Ingredients")),
         supplierProductName |-> Field(f, "supplierProductName"),
         Ingredients |-> Field(f, "Ingredients"),
         supplierProductUrl |-> Field(f, "supplierProductUrl"),
         isOrganic |-> OrFalse(Field(f, "isOrganic")),
         isRaw |-> OrFalse(Field(f, "isRaw")),
         isGeroosterd |-> OrFalse(Field(f, "isGeroosterd")),
         isGebrand |-> OrFalse(Field(f, "isGebrand")),
         isSalted |-> OrFalse(Field(f, "isSalted")),
         isNutbutterAvailable |-> OrFalse(Field(f, "isNutbutterAvailable")),
         imageUrl |-> imageUrlOf(sptId),
         marketingName |-> Str(internalName)]

\* mtbLookup.get(linkedBaseId) finds a record
LinkResolves(lookup, linkedBaseId) ==
    ~Falsy(linkedBaseId) /\ linkedBaseId \in DOMAIN lookup

\* a lookup miss that raises instead of skipping the record
reconcileRecordAbortOnMiss(file, options, lookup, sptRecord) ==
    LET linkedBaseId == Field(sptRecord.fields, "linkedBaseProductId")
        internalName == Field(sptRecord.fields, "internalName")
        sptId == Field(sptRecord.fields, "sptId")
    IN  IF ~LinkResolves(lookup, linkedBaseId) \/ ~IsStr(internalName)
        THEN [kind |-> "throw"]
        ELSE [kind |-> "push",
              payload |->
                [id |-> sptRecord.id,
                 fields |-> updatesOf(file, options, internalName.s, sptId,
                                      lookup[linkedBaseId],
                                      variantRule(file, internalName.s,
                                                  lookup[linkedBaseId]))]]

\* a record whose variant rule gives nothing is skipped like a lookup miss
reconcileRecordSkipNull(file, options, lookup, sptRecord) ==
    LET linkedBaseId == Field(sptRecord.fields, "linkedBaseProductId")
        internalName == Field(sptRecord.fields, "internalName")
        sptId == Field(sptRecord.fields, "sptId")
    IN  IF ~LinkResolves(lookup, linkedBaseId)
        THEN [kind |-> "skip"]
        ELSE IF ~IsStr(internalName)
        THEN [kind |-> "throw"]
        ELSE IF variantRule(file, internalName.s, lookup[linkedBaseId]).packageSize = Null
        THEN [kind |-> "skip"]
        ELSE [kind |-> "push",
              payload |->
                [id |-> sptRecord.id,
                 fields |-> updatesOf(file, options, internalName.s, sptId,
                                      lookup[linkedBaseId],
                                      variantRule(file, internalName.s,
                                                  lookup[linkedBaseId]))]]

\* one pass of the body of the loop over recordsToUpdate:
\*   "skip"  - one of the two continue statements ran
\*   "throw" - internalName.match threw (internalName is not text)
\*   "push"  - a payload was pushed
reconcileRecord(file, options, lookup, sptRecord) ==
    LET linkedBaseId == Field(sptRecord.fields, "linkedBaseProductId")
        internalName == Field(sptRecord.fields, "internalName")
        sptId == Field(sptRecord.fields, "sptId")
    IN  IF ~LinkResolves(lookup, linkedBaseId)
        THEN [kind |-> "skip"]
        ELSE IF ~IsStr(internalName)
        THEN [kind |-> "throw"]
        ELSE [kind |-> "push",
              payload |->
                [id |-> sptRecord.id,
                 fields |-> updatesOf(file, options, internalName.s, sptId,
                                      lookup[linkedBaseId],
                                      variantRule(file, internalName.s,
                                                  lookup[linkedBaseId]))]]

\* new Map(mtbData.records.map(rec => [rec.fields.baseProductId, rec.fields]))
mtbLookupOf(records) ==
    MapOf([j \in DOMAIN records |->
             [key |-> Field(records[j].fields, "baseProductId"),
              val |-> records[j].fields]])

----------------------------------------------------------------------------
(* The remote base: schema, master table and view contents *)

MaxRecords == 23    \* most records the "Batch Update" view holds

BatchSize == 10     \* the step of the write loop and the size of a slice

TWholeNutsLower == <<"w","h","o","l","e"," ","n","u","t","s">>
TWholeNutsSpaced == <<" ","W","h","o","l","e"," "," "," ","N","u","t","s"," ">>
TNutMix == <<"N","u","t"," ","M","I","X">>
TSpain == <<"S","p","a","i","n">>
TSpainLower == <<"s","p","a","i","n">>

Choice(name, id) == [name |-> name, id |-> id]
SelectField(name, type, choices) == [name |-> name, type |-> type, choices |-> choices]

\* the SPT table with every choice spelled as the handlers derive it
SchemaExact ==
    [tables |-> <<
        [name |-> "MTB - Prices, purchase and sell", fields |-> <<>>],
        [name |-> SptTableName, fields |-> <<
            SelectField("packageSize", "singleSelect",
                <<Choice(L450gBag, "selP450"), Choice(L1000gBag, "selP1000"),
                  Choice(L175gJar, "selP175"), Choice(L365gJar, "selP365")>>),
            SelectField("productType", "singleSelect",
                <<Choice(TNutBag, "selTBag"), Choice(TNutButterJar, "selTJar")>>),
            SelectField("category", "singleSelect",
                <<Choice(TWholeNuts, "selCWhole"), Choice(TMixes, "selCMix"),
                  Choice(TNutButters, "selCButter")>>),
            SelectField("baseProductGroup", "singleSelect",
                <<Choice(TWholeNuts, "selGWhole"), Choice(TNutMix, "selGMix")>>),
            SelectField("countryOfOrigin", "singleSelect",
                <<Choice(TSpain, "selOSpain")>>),
            SelectField("allergens", "multipleSelects", <<>>),
            SelectField("marketingName", "singleLineText", <<>>)>>]>>]

\* the SPT table with choices spelled in another case or spacing, a choice
\* missing, and productType not a select field
SchemaLoose ==
    [tables |-> <<
        [name |-> SptTableName, fields |-> <<
            SelectField("packageSize", "singleSelect",
                <<Choice(toLowerCase(L450gBag), "selP450"),
                  Choice(L1000gBag, "selP1000"),
                  Choice(L365gJar, "selP365")>>),
            SelectField("productType", "singleLineText", <<>>),
            SelectField("category", "singleSelect",
                <<Choice(TWholeNutsSpaced, "selCWhole"),
                  Choice(TNutButters, "selCButter")>>),
            SelectField("countryOfOrigin", "singleSelect",
                <<Choice(TSpainLower, "selOSpain")>>)>>]>>]

\* a base whose schema has no SPT table
SchemaNoTable ==
    [tables |-> <<[name |-> "MTB - Prices, purchase and sell", fields |-> <<>>]>>]

Schemas == {SchemaExact, SchemaLoose, SchemaNoTable}

Obj(name) == [t |-> "obj", name |-> name]

\* 'SOYA, almonds, MILK powder'
TIngredients == <<"S","O","Y","A",","," ","a","l","m","o","n","d","s",","," ",
                  "M","I","L","K"," ","p","o","w","d","e","r">>

Tb1 == <<"b","1">>
Tb2 == <<"b","2">>
Tb3 == <<"b","3">>
TbX == <<"b","X">>

\* the records of the master table; prices are in cents
MtbRecords == <<
    [id |-> "recM1", fields |->
        [baseProductId |-> Str(Tb1),
         Verkoop450g |-> Num(1250), Verkoop1kg |-> Num(2300),
         NutButter175g |-> Num(595), NutButter365g |-> Num(995),
         baseProductGroup |-> Obj(Str(TWholeNuts)),
         countryOfOrigin |-> Str(TSpain),
         Ingredients |-> Str(TIngredients),
         isOrganic |-> Bool(TRUE), isRaw |-> Bool(FALSE)]],
    [id |-> "recM2", fields |->
        [baseProductId |-> Str(Tb2),
         Verkoop450g |-> Num(1400), NutButter365g |-> Num(1095),
         baseProductGroup |-> Obj(Str(TNutMix)),
         isSalted |-> Bool(TRUE)]],
    [id |-> "recM3", fields |->
        [baseProductId |-> Str(Tb3),
         Verkoop1kg |-> Num(2100)]] >>

SptFields(link, name) ==
    [linkedBaseProductId |-> link, internalName |-> name, sptId |-> Str(<<"7">>)]

Nz450 == <<"a","m","-","z","4","5","0">>
Nz1000 == <<"a","m","-","z","1","0","0","0">>
Nnb175 == <<"p","b","-","n","b","1","7","5">>
Nnb365 == <<"p","b","-"," ","n","b","3","6","5">>
Nplain == <<"p","l","a","i","n">>
Nz500 == <<"a","m","-","z","5","0","0">>
Ntrail == <<"a","m","-","z","4","5","0","x">>
Nz4500 == <<"a","m","-","z","4","5","0","0">>

\* view contents: every link resolves and every record has a name
CatalogueClean == <<
    SptFields(Str(Tb1), Str(Nz450)), SptFields(Str(Tb2), Str(Nz1000)),
    SptFields(Str(Tb1), Str(Nnb175)), SptFields(Str(Tb2), Str(Nnb365)),
    SptFields(Str(Tb1), Str(Nplain)), SptFields(Str(Tb3), Str(Nz500)),
    SptFields(Str(Tb1), Str(Ntrail)), SptFields(Str(Tb2), Str(Nz4500)) >>

\* view contents: some links are empty, missing or unknown
CatalogueMixed == <<
    SptFields(Str(Tb1), Str(Nz450)), [sptId |-> Str(<<"8">>)],
    SptFields(Str(Tb2), Str(Nplain)), SptFields(Str(TbX), Str(Nz1000)),
    SptFields(Str(Tb2), Str(Nnb365)), SptFields(Str(<<>>), Str(Nnb175)),
    SptFields(Str(Tb3), Str(Nz1000)) >>

\* view contents: a record whose link resolves has no internal name
CatalogueFaulty == <<
    SptFields(Str(Tb1), Str(Nz450)), SptFields(Str(TbX), Str(Nz450)),
    [linkedBaseProductId |-> Str(Tb2)], SptFields(Str(Tb2), Str(Nz1000)) >>

Catalogues == {CatalogueClean, CatalogueMixed, CatalogueFaulty}

\* the n records of a view filled from a catalogue, record k having id k
ViewOf(catalogue, n) ==
    [k \in 1..n |-> [id |-> k, fields |-> catalogue[((k - 1) % Len(catalogue)) + 1]]]

Views == {ViewOf(c, n) : c \in Catalogues, n \in 0..MaxRecords}

TSecret == <<"s","3","c","r","3","t">>
TWrong == <<"w","r","o","n","g">>

NoBody == Undefined
Body(fields) == [t |-> "obj", fields |-> fields]

Requests ==
    {[method |-> m, body |-> b] :
        m \in {"POST", "GET"},
        b \in {NoBody, Body([password |-> Str(TSecret)]),
               Body([password |-> Str(TWrong)]), Body([other |-> Str(TWrong)])}}

Envs == {Str(TSecret), Undefined}

----------------------------------------------------------------------------
(* Handler state *)

NoLog == [exists |-> FALSE, lines |-> <<>>]
NewLog == [exists |-> TRUE, lines |-> <<>>]
Line(text, n) == [text |-> text, n |-> n]
Push(log, line) == [log EXCEPT !.lines = Append(@, line)]

ErrorLine(message) == Line("ERROR: " \o message, 0)

NoResponse == [status |-> 0, text |-> "", details |-> NoLog, count |-> 0]
Respond(status, text, details, count) ==
    [status |-> status, text |-> text, details |-> details, count |-> count]

Call(kind, batch) == [kind |-> kind, batch |-> batch, status |-> "pending"]

\* a call whose answer is not awaited before the handler goes on
SettleNotAwaited(cs, status) == cs

Settle(cs, status) == [cs EXCEPT ![Len(cs)].status = status]

NoFn == [fn |-> "none"]

Init ==
    /\ variant \in {"strict", "lenient"}
    /\ request \in Requests
    /\ env \in Envs
    /\ schema \in Schemas
    /\ view \in Views
    /\ pc = "start"
    /\ logDetails = NoLog
    /\ selectOptions = <<>>
    /\ mtbLookup = <<>>
    /\ r = 1
    /\ updatePayloads = <<>>
    /\ i = 0
    /\ calls = <<>>
    /\ committed = <<>>
    /\ timers = <<>>
    /\ response = NoResponse
    /\ thrown = ""
    /\ fin = NoFn
    /\ fout = NoFn
    /\ runs = <<>>
    /\ frames = <<>>

world == <<variant, request, env, schema, view, fin, fout, runs, frames>>

\* the catch block: log the error, answer 500
Catch(message) ==
    /\ logDetails' = Push(logDetails, ErrorLine(message))
    /\ response' = Respond(500, message, Push(logDetails, ErrorLine(message)), 0)
    /\ thrown' = message
    /\ pc' = "done"

\* entry of the handler up to the first await
Receive ==
    /\ pc = "start"
    /\ IF request.method # "POST"
       THEN /\ response' = Respond(405, "Method Not Allowed", NoLog, 0)
            /\ pc' = "done"
            /\ UNCHANGED <<logDetails, calls, thrown>>
       ELSE IF request.body.t # "obj"
       THEN \* destructuring request.body throws before the try block:
            \* the handler's promise rejects and it sends no response
            /\ pc' = "crashed"
            /\ thrown' = "Cannot destructure property 'password' of 'request.body'"
            /\ UNCHANGED <<response, logDetails, calls>>
       ELSE IF Field(request.body.fields, "password") # env
       THEN /\ response' = Respond(401, "Invalid password.", NoLog, 0)
            /\ pc' = "done"
            /\ UNCHANGED <<logDetails, calls, thrown>>
       ELSE /\ logDetails' = Push(NewLog,
                    Line("Fetching field options from Airtable schema...", 0))
            /\ calls' = Append(calls, Call("schema", <<>>))
            /\ pc' = "schema"
            /\ UNCHANGED <<response, thrown>>
    /\ UNCHANGED <<world, timers, selectOptions, mtbLookup, r, updatePayloads, i, committed>>

\* the schema call answers with a failure status
SchemaFetchFails ==
    /\ pc = "schema"
    /\ calls' = Settle(calls, "fail")
    /\ Catch("Failed to fetch base schema")
    /\ UNCHANGED <<world, timers, selectOptions, mtbLookup, r, updatePayloads, i, committed>>

\* the schema call answers; getSelectOptions finishes and the view is asked for
SchemaFetchOk ==
    /\ pc = "schema"
    /\ calls' = IF TableFound(schema, SptTableName)
                THEN Append(Settle(calls, "ok"), Call("spt", <<>>))
                ELSE Settle(calls, "ok")
    /\ IF TableFound(schema, SptTableName)
       THEN /\ selectOptions' = getSelectOptions(variant, schema, SptTableName)
            /\ logDetails' =
                 Push(IF variant = "strict"
                      THEN Push(logDetails, Line("Successfully fetched select options.", 0))
                      ELSE logDetails,
                      Line("Fetching records from view: Batch Update", 0))
            /\ pc' = "spt"
            /\ UNCHANGED <<response, thrown>>
       ELSE /\ Catch("Table not found in base schema.")
            /\ UNCHANGED selectOptions
    /\ UNCHANGED <<world, timers, mtbLookup, r, updatePayloads, i, committed>>

\* a failed view fetch whose status is not looked at
SptFetchFailsIgnored ==
    /\ pc = "spt"
    /\ calls' = Append(Settle(calls, "fail"), Call("mtb", <<>>))
    /\ logDetails' = Push(logDetails, Line("Found records to update.", Len(view)))
    /\ pc' = "mtb"
    /\ UNCHANGED <<world, timers, selectOptions, mtbLookup, r, updatePayloads, i, committed,
                   response, thrown>>

SptFetchFails ==
    /\ pc = "spt"
    /\ calls' = Settle(calls, "fail")
    /\ Catch("Failed to fetch SPT records")
    /\ UNCHANGED <<world, timers, selectOptions, mtbLookup, r, updatePayloads, i, committed>>

\* the view fetch without the early return for an empty view
SptFetchOkNoEarlyReturn ==
    /\ pc = "spt"
    /\ calls' = Append(Settle(calls, "ok"), Call("mtb", <<>>))
    /\ logDetails' = Push(logDetails, Line("Found records to update.", Len(view)))
    /\ pc' = "mtb"
    /\ UNCHANGED <<response, thrown>>
    /\ UNCHANGED <<world, timers, selectOptions, mtbLookup, r, updatePayloads, i, committed>>

NoRecordsLine(file) ==
    IF file = "strict"
    THEN Line("No records found in the 'Batch Update' view.", 0)
    ELSE Line("No records found in the 'Batch Update' view. Nothing to do.", 0)

SptFetchOk ==
    /\ pc = "spt"
    /\ IF Len(view) = 0
       THEN /\ calls' = Settle(calls, "ok")
            /\ logDetails' = Push(logDetails, NoRecordsLine(variant))
            /\ response' = Respond(200, "No records to update.",
                                   Push(logDetails, NoRecordsLine(variant)), 0)
            /\ pc' = "done"
            /\ UNCHANGED thrown
       ELSE /\ calls' = Append(Settle(calls, "ok"), Call("mtb", <<>>))
            /\ logDetails' = Push(logDetails, Line("Found records to update.", Len(view)))
            /\ pc' = "mtb"
            /\ UNCHANGED <<response, thrown>>
    /\ UNCHANGED <<world, timers, selectOptions, mtbLookup, r, updatePayloads, i, committed>>

MtbFetchFails ==
    /\ pc = "mtb"
    /\ calls' = Settle(calls, "fail")
    /\ Catch("Failed to fetch MTB records")
    /\ UNCHANGED <<world, timers, selectOptions, mtbLookup, r, updatePayloads, i, committed>>

MtbFetchOk ==
    /\ pc = "mtb"
    /\ calls' = Settle(calls, "ok")
    /\ mtbLookup' = mtbLookupOf(MtbRecords)
    /\ updatePayloads' = <<>>
    /\ r' = 1
    /\ pc' = "reconcile"
    /\ UNCHANGED <<world, timers, selectOptions, logDetails, i, committed, response, thrown>>

\* one pass of the loop over recordsToUpdate
Reconcile ==
    /\ pc = "reconcile"
    /\ r <= Len(view)
    /\ LET res == reconcileRecord(variant, selectOptions, mtbLookup, view[r]) IN
       IF res.kind = "throw"
       THEN /\ Catch("Cannot read properties of undefined (reading 'match')")
            /\ UNCHANGED <<r, updatePayloads, i>>
       ELSE /\ updatePayloads' = IF res.kind = "push"
                                 THEN Append(updatePayloads, res.payload)
                                 ELSE updatePayloads
            /\ r' = r + 1
            /\ i' = 0
            /\ pc' = IF r = Len(view) THEN "write" ELSE "reconcile"
            /\ UNCHANGED <<logDetails, response, thrown>>
    /\ UNCHANGED <<world, timers, selectOptions, mtbLookup, calls, committed>>

\* a slice one record too long
BatchAtWide(payloads, from) ==
    SubSeq(payloads, from + 1,
           IF from + BatchSize + 1 < Len(payloads) THEN from + BatchSize + 1
           ELSE Len(payloads))

\* updatePayloads.slice(i, i + 10)
BatchAt(payloads, from) ==
    SubSeq(payloads, from + 1,
           IF from + BatchSize < Len(payloads) THEN from + BatchSize ELSE Len(payloads))

\* head of the write loop: send the next slice, or answer success
WriteBatch ==
    /\ pc = "write"
    /\ IF i < Len(updatePayloads)
       THEN /\ logDetails' = Push(logDetails,
                    Line("Updating batch of records...", Len(BatchAt(updatePayloads, i))))
            /\ calls' = Append(calls, Call("patch", BatchAt(updatePayloads, i)))
            /\ pc' = "patch"
            /\ UNCHANGED <<response, thrown>>
       ELSE /\ response' = Respond(200, "Successfully processed and updated records.",
                                   logDetails, Len(updatePayloads))
            /\ pc' = "done"
            /\ UNCHANGED <<logDetails, calls, thrown>>
    /\ UNCHANGED <<world, timers, selectOptions, mtbLookup, r, updatePayloads, i, committed>>

\* a failed write that is logged inside the loop, which then goes on
PatchFailsIgnored ==
    /\ pc = "patch"
    /\ calls' = Settle(calls, "fail")
    /\ logDetails' = Push(logDetails, ErrorLine("Failed to update batch"))
    /\ pc' = "delay"
    /\ UNCHANGED <<world, timers, selectOptions, mtbLookup, r, updatePayloads, i, committed,
                   response, thrown>>

PatchFails ==
    /\ pc = "patch"
    /\ calls' = Settle(calls, "fail")
    /\ Catch("Failed to update batch")
    /\ UNCHANGED <<world, timers, selectOptions, mtbLookup, r, updatePayloads, i, committed>>

\* the delay is started but the next pass does not wait for it
PatchOkDelayNotAwaited ==
    /\ pc = "patch"
    /\ calls' = Settle(calls, "ok")
    /\ committed' = committed \o calls[Len(calls)].batch
    /\ logDetails' = Push(logDetails, Line("Batch updated successfully.", 0))
    /\ timers' = Append(timers, "running")
    /\ i' = i + BatchSize
    /\ pc' = "write"
    /\ UNCHANGED <<world, selectOptions, mtbLookup, r, updatePayloads, response, thrown>>

\* the write succeeded: the batch is stored and delay(250) is started
PatchOk ==
    /\ pc = "patch"
    /\ calls' = Settle(calls, "ok")
    /\ committed' = committed \o calls[Len(calls)].batch
    /\ logDetails' = Push(logDetails, Line("Batch updated successfully.", 0))
    /\ timers' = Append(timers, "running")
    /\ pc' = "delay"
    /\ UNCHANGED <<world, selectOptions, mtbLookup, r, updatePayloads, i, response, thrown>>

\* await delay(250) ends; the loop steps by 10
DelayElapsed ==
    /\ pc = "delay"
    /\ timers' = [timers EXCEPT ![Len(timers)] = "elapsed"]
    /\ i' = i + BatchSize
    /\ pc' = "write"
    /\ UNCHANGED <<world, selectOptions, mtbLookup, r, updatePayloads, logDetails,
                   calls, committed, response, thrown>>

Next ==
    \/ Receive
    \/ SchemaFetchFails
    \/ SchemaFetchOk
    \/ SptFetchFails
    \/ SptFetchOk
    \/ MtbFetchFails
    \/ MtbFetchOk
    \/ Reconcile
    \/ WriteBatch
    \/ PatchFails
    \/ PatchOk
    \/ DelayElapsed

Spec == Init /\ [][Next]_vars

----------------------------------------------------------------------------
(* The pure functions of the handlers, applied to drawn inputs *)

NamePrefixes == {<<>>, <<"a">>, <<"M","-","z","1"," ">>, <<"x","-">>}
NameHyphens == {<<>>, <<"-">>, <<"-"," ">>, <<"-","\t"," ">>}
NameCodes == {Cz450, Cz1000, Cnb175, Cnb365, <<"z","5","0","0">>,
              <<"z","4","5","0","0">>, <<"z">>, <<"n","b">>, <<"Z","4","5","0">>,
              <<"n","b","1","7">>, <<"4","5","0">>}
NameTrailers == {<<>>, <<"x">>, <<" ">>, <<"0">>}

InternalNames ==
    {a \o h \o c \o t : a \in NamePrefixes, h \in NameHyphens,
                        c \in NameCodes, t \in NameTrailers}

PackageSizes ==
    {Null, Str(L450gBag), Str(L1000gBag), Str(L1kgBag), Str(L175gJar), Str(L365gJar),
     Str(<<>>), Str(TBag), Str(TJar \o <<" ">> \o TBag), Str(toLowerCase(TBag)),
     Str(<<"J","A","R">>), Str(<<"B","a"," ","g">>)}

GroupTexts ==
    {Undefined, Str(<<>>), Str(TNutMix), Str(TMixes), Str(TWholeNuts),
     Str(<<"m","I","x","e","d">>), Str(<<"m","i"," ","x">>)}

ChoiceLabels ==
    {TWholeNuts, TWholeNutsLower, TWholeNutsSpaced,
     <<"W","H","O","L","E","\t","N","U","T","S">>, TMixes,
     <<"W","h","o","l","e"," ","N","u","t">>}

ChoiceLists ==
    {<<Choice(a, "selA")>> : a \in ChoiceLabels}
    \cup {<<Choice(a, "selA"), Choice(b, "selB")>> : a \in ChoiceLabels, b \in {TMixes, TWholeNutsLower}}

DerivedTexts == {Null} \cup {Str(a) : a \in ChoiceLabels}

MaxSegments == 3    \* most segments an ingredients text is put together from

IngredientSegments ==
    {<<"S","O","Y","A">>, <<"E">>, <<"M","I","L","K"," ">>, <<"n","u","t","s">>,
     <<",", " ">>, <<"A"," ">>, <<"b">>, <<"A","l">>, <<" ">>, <<"N","U","T","S">>}

RECURSIVE TextsOf(_)
TextsOf(n) ==
    IF n = 0 THEN {<<>>}
    ELSE TextsOf(n - 1) \cup {t \o g : t \in TextsOf(n - 1), g \in IngredientSegments}

IngredientTexts ==
    {Undefined, Null, Str(TIngredients)} \cup {Str(t) : t \in TextsOf(MaxSegments)}

FnInputs ==
    {[fn |-> "allergens", ingredients |-> t] : t \in IngredientTexts}
    \cup {[fn |-> "variantRule", name |-> n, fields |-> MtbRecords[k].fields] :
        n \in InternalNames, k \in {1, 3}}
    \cup {[fn |-> "classify", packageSize |-> p, group |-> g] :
        p \in PackageSizes, g \in GroupTexts}
    \cup {[fn |-> "resolve", choices |-> c, text |-> t] :
        c \in ChoiceLists, t \in DerivedTexts}

InitFn ==
    /\ variant = "strict"
    /\ request = [method |-> "POST", body |-> NoBody]
    /\ env = Undefined
    /\ schema = SchemaNoTable
    /\ view = <<>>
    /\ pc = "idle"
    /\ logDetails = NoLog
    /\ selectOptions = <<>>
    /\ mtbLookup = <<>>
    /\ r = 1
    /\ updatePayloads = <<>>
    /\ i = 0
    /\ calls = <<>>
    /\ committed = <<>>
    /\ timers = <<>>
    /\ response = NoResponse
    /\ thrown = ""
    /\ fin \in FnInputs
    /\ fout = NoFn
    /\ runs = <<>>
    /\ frames = <<>>

handlerVars == <<variant, request, env, schema, view, pc, logDetails, selectOptions,
                 mtbLookup, r, updatePayloads, i, calls, committed, response, thrown,
                 timers, runs, frames>>

\* the variant rule of each of the three files on one internal name
ApplyVariantRule ==
    /\ fin.fn = "variantRule"
    /\ fout = NoFn
    /\ fout' = [fn |-> "variantRule",
                strict |-> variantRule("strict", fin.name, fin.fields),
                lenient |-> variantRule("lenient", fin.name, fin.fields),
                single |-> variantRule("single", fin.name, fin.fields)]
    /\ UNCHANGED <<handlerVars, fin>>

\* product type and category; the batch files read the group's name from
\* an object, the single-record file takes the field as text
ApplyClassifier ==
    /\ fin.fn = "classify"
    /\ fout = NoFn
    /\ fout' = [fn |-> "classify",
                productType |-> productTypeOf(fin.packageSize),
                categoryBatch |->
                    categoryOf(productTypeOf(fin.packageSize),
                        groupTextOf(groupNameOf([baseProductGroup |-> Obj(fin.group)]))),
                categorySingle |->
                    categoryOf(productTypeOf(fin.packageSize), groupTextOf(fin.group))]
    /\ UNCHANGED <<handlerVars, fin>>

SchemaWith(choices) ==
    [tables |-> <<[name |-> SptTableName, fields |->
        <<SelectField("category", "singleSelect", choices)>>]>>]

\* a derived text looked up in the option map each batch file builds
ApplyResolve ==
    /\ fin.fn = "resolve"
    /\ fout = NoFn
    /\ fout' = [fn |-> "resolve",
                strict |->
                    resolveStrict(getSelectOptions("strict", SchemaWith(fin.choices),
                                                   SptTableName),
                                  "category", fin.text),
                lenient |->
                    resolveLenient(getSelectOptions("lenient", SchemaWith(fin.choices),
                                                    SptTableName),
                                   "category", fin.text, Absent)]
    /\ UNCHANGED <<handlerVars, fin>>

\* the allergen list of the batch files and of the single-record file
ApplyAllergens ==
    /\ fin.fn = "allergens"
    /\ fout = NoFn
    /\ fout' = [fn |-> "allergens",
                batch |-> allergensBatch(fin.ingredients),
                single |-> allergensSingle(fin.ingredients)]
    /\ UNCHANGED <<handlerVars, fin>>

NextFn ==
    \/ ApplyAllergens
    \/ ApplyVariantRule
    \/ ApplyClassifier
    \/ ApplyResolve

SpecFn == InitFn /\ [][NextFn]_vars

----------------------------------------------------------------------------
(* Two invocations of one batch handler running concurrently *)

Invocations == {1, 2}

MaxPairRecords == 3     \* most records the view holds for one invocation

\* every local declared at module level: one storage for all invocations
OwnShared(id) == 1

\* logDetails, selectOptions, mtbLookup, updatePayloads and the loop indices
\* are declared inside handler: each invocation has its own
Own(id) == id

\* the locals of an invocation that has not run a statement yet
NewFrame ==
    [logDetails |-> NoLog, selectOptions |-> <<>>, mtbLookup |-> <<>>,
     updatePayloads |-> <<>>, i |-> 0, r |-> 1]

\* what the remote base answers to one invocation, and how far it got;
\* pushed lists the log lines this invocation pushed itself
NewRun(schemaJson, records) ==
    [pc |-> "start", calls |-> <<>>, response |-> NoResponse,
     schema |-> schemaJson, view |-> records, pushed |-> <<>>]

\* the view as invocation id finds it: record k has id <<id, k>>
PairViewOf(id, catalogue, n) ==
    [k \in 1..n |-> [id |-> <<id, k>>, fields |-> catalogue[k]]]

PairSchemas == {SchemaExact, SchemaLoose}

PairCatalogues == {CatalogueClean, CatalogueFaulty}

InitPair ==
    /\ variant \in {"strict", "lenient"}
    /\ request = [method |-> "POST", body |-> Body([password |-> Str(TSecret)])]
    /\ env = Str(TSecret)
    /\ schema = SchemaExact
    /\ view = <<>>
    /\ pc = "idle"
    /\ logDetails = NoLog
    /\ selectOptions = <<>>
    /\ mtbLookup = <<>>
    /\ r = 1
    /\ updatePayloads = <<>>
    /\ i = 0
    /\ calls = <<>>
    /\ committed = <<>>
    /\ timers = <<>>
    /\ response = NoResponse
    /\ thrown = ""
    /\ fin = NoFn
    /\ fout = NoFn
    /\ \E s \in [Invocations -> PairSchemas] :
       \E c \in [Invocations -> PairCatalogues] :
       \E n \in [Invocations -> 0..MaxPairRecords] :
           runs = [id \in Invocations |-> NewRun(s[id], PairViewOf(id, c[id], n[id]))]
    /\ frames = [id \in Invocations |-> NewFrame]

singleRun == <<variant, request, env, schema, view, pc, logDetails, selectOptions,
               mtbLookup, r, updatePayloads, i, calls, committed, response, thrown,
               timers, fin, fout>>

\* invocation id goes on with the locals frame and the progress run
Step(id, frame, run) ==
    /\ frames' = [frames EXCEPT ![Own(id)] = frame]
    /\ runs' = [runs EXCEPT ![id] = run]
    /\ UNCHANGED singleRun

\* the catch block of invocation id
PairCatch(id, run, message) ==
    LET log == Push(frames[Own(id)].logDetails, ErrorLine(message)) IN
    Step(id, [frames[Own(id)] EXCEPT !.logDetails = log],
         [run EXCEPT !.pc = "done",
                     !.pushed = Append(@, ErrorLine(message)),
                     !.response = Respond(500, message, log, 0)])

\* an authorized request arrives: the log is created and the schema asked for
PairReceive(id) ==
    LET line == Line("Fetching field options from Airtable schema...", 0) IN
    /\ runs[id].pc = "start"
    /\ Step(id, [NewFrame EXCEPT !.logDetails = Push(NewLog, line)],
            [runs[id] EXCEPT !.pc = "schema",
                             !.calls = <<Call("schema", <<>>)>>,
                             !.pushed = <<line>>])

FailureOf(at) ==
    CASE at = "schema" -> "Failed to fetch base schema"
      [] at = "spt" -> "Failed to fetch SPT records"
      [] at = "mtb" -> "Failed to fetch MTB records"
      [] OTHER -> "Failed to update batch"

\* the call invocation id waits for answers with a failure status
PairCallFails(id) ==
    /\ runs[id].pc \in {"schema", "spt", "mtb", "patch"}
    /\ PairCatch(id, [runs[id] EXCEPT !.calls = Settle(@, "fail")],
                 FailureOf(runs[id].pc))

PairSchemaFetchOk(id) ==
    LET lines == IF variant = "strict"
                 THEN <<Line("Successfully fetched select options.", 0),
                        Line("Fetching records from view: Batch Update", 0)>>
                 ELSE <<Line("Fetching records from view: Batch Update", 0)>>
        f == frames[Own(id)]
    IN  /\ runs[id].pc = "schema"
        /\ Step(id,
                [f EXCEPT !.selectOptions =
                              getSelectOptions(variant, runs[id].schema, SptTableName),
                          !.logDetails = [@ EXCEPT !.lines = @ \o lines]],
                [runs[id] EXCEPT !.pc = "spt",
                                 !.calls = Append(Settle(@, "ok"), Call("spt", <<>>)),
                                 !.pushed = @ \o lines])

PairSptFetchOk(id) ==
    LET f == frames[Own(id)]
        n == Len(runs[id].view)
        line == IF n = 0 THEN NoRecordsLine(variant)
                ELSE Line("Found records to update.", n)
        log == Push(f.logDetails, line)
    IN  /\ runs[id].pc = "spt"
        /\ Step(id, [f EXCEPT !.logDetails = log],
                IF n = 0
                THEN [runs[id] EXCEPT !.pc = "done",
                                      !.calls = Settle(@, "ok"),
                                      !.pushed = Append(@, line),
                                      !.response =
                                          Respond(200, "No records to update.", log, 0)]
                ELSE [runs[id] EXCEPT !.pc = "mtb",
                                      !.calls = Append(Settle(@, "ok"), Call("mtb", <<>>)),
                                      !.pushed = Append(@, line)])

PairMtbFetchOk(id) ==
    /\ runs[id].pc = "mtb"
    /\ Step(id, [frames[Own(id)] EXCEPT !.mtbLookup = mtbLookupOf(MtbRecords),
                                        !.updatePayloads = <<>>,
                                        !.r = 1],
            [runs[id] EXCEPT !.pc = "reconcile", !.calls = Settle(@, "ok")])

\* one pass of the loop over recordsToUpdate of invocation id
PairReconcile(id) ==
    LET f == frames[Own(id)] IN
    /\ runs[id].pc = "reconcile"
    /\ IF f.r > Len(runs[id].view)
       THEN Step(id, [f EXCEPT !.i = 0], [runs[id] EXCEPT !.pc = "write"])
       ELSE LET res == reconcileRecord(variant, f.selectOptions, f.mtbLookup,
                                       runs[id].view[f.r])
            IN  IF res.kind = "throw"
                THEN PairCatch(id, runs[id],
                               "Cannot read properties of undefined (reading 'match')")
                ELSE Step(id,
                          [f EXCEPT !.updatePayloads =
                                        IF res.kind = "push"
                                        THEN Append(@, res.payload) ELSE @,
                                    !.r = @ + 1],
                          runs[id])

\* head of the write loop of invocation id
PairWriteBatch(id) ==
    LET f == frames[Own(id)]
        batch == BatchAt(f.updatePayloads, f.i)
        line == Line("Updating batch of records...", Len(batch))
    IN  /\ runs[id].pc = "write"
        /\ IF f.i < Len(f.updatePayloads)
           THEN Step(id, [f EXCEPT !.logDetails = Push(@, line)],
                     [runs[id] EXCEPT !.pc = "patch",
                                      !.calls = Append(@, Call("patch", batch)),
                                      !.pushed = Append(@, line)])
           ELSE Step(id, f,
                     [runs[id] EXCEPT !.pc = "done",
                                      !.response =
                                          Respond(200,
                                                  "Successfully processed and updated records.",
                                                  f.logDetails, Len(f.updatePayloads))])

PairPatchOk(id) ==
    LET line == Line("Batch updated successfully.", 0) IN
    /\ runs[id].pc = "patch"
    /\ Step(id, [frames[Own(id)] EXCEPT !.logDetails = Push(@, line)],
            [runs[id] EXCEPT !.pc = "delay",
                             !.calls = Settle(@, "ok"),
                             !.pushed = Append(@, line)])

PairDelayElapsed(id) ==
    /\ runs[id].pc = "delay"
    /\ Step(id, [frames[Own(id)] EXCEPT !.i = @ + BatchSize],
            [runs[id] EXCEPT !.pc = "write"])

NextPair ==
    \/ \E id \in Invocations : PairReceive(id)
    \/ \E id \in Invocations : PairCallFails(id)
    \/ \E id \in Invocations : PairSchemaFetchOk(id)
    \/ \E id \in Invocations : PairSptFetchOk(id)
    \/ \E id \in Invocations : PairMtbFetchOk(id)
    \/ \E id \in Invocations : PairReconcile(id)
    \/ \E id \in Invocations : PairWriteBatch(id)
    \/ \E id \in Invocations : PairPatchOk(id)
    \/ \E id \in Invocations : PairDelayElapsed(id)

SpecPair == InitPair /\ [][NextPair]_vars

----------------------------------------------------------------------------
(* Properties *)

PatchCalls == SelectSeq(calls, LAMBDA c : c.kind = "patch")

RECURSIVE ConcatBatches(_)
ConcatBatches(cs) ==
    IF cs = <<>> THEN <<>> ELSE Head(cs).batch \o ConcatBatches(Tail(cs))

Ids(payloads) == [k \in DOMAIN payloads |-> payloads[k].id]

Last(seq) == seq[Len(seq)]

Success ==
    /\ pc = "done"
    /\ response.status = 200
    /\ response.text = "Successfully processed and updated records."

MatchError == "Cannot read properties of undefined (reading 'match')"

\* the record's link is non-empty text and is the baseProductId of a master record
Resolvable(rec) ==
    LET link == Field(rec.fields, "linkedBaseProductId") IN
    /\ IsStr(link)
    /\ link.s # <<>>
    /\ \E j \in DOMAIN MtbRecords : Field(MtbRecords[j].fields, "baseProductId") = link

\* ids of the first n view records whose link resolves, in view order
RECURSIVE ResolvableIds(_)
ResolvableIds(n) ==
    IF n = 0 THEN <<>>
    ELSE IF Resolvable(view[n]) THEN Append(ResolvableIds(n - 1), view[n].id)
    ELSE ResolvableIds(n - 1)

EndsWith(s, suf) ==
    Len(suf) <= Len(s) /\ SubSeq(s, Len(s) - Len(suf) + 1, Len(s)) = suf

RecognizedCodes == {Cz450, Cz1000, Cnb175, Cnb365}

\* the record has a name and the name does not end in a recognized code
Unrecognized(rec) ==
    LET name == Field(rec.fields, "internalName") IN
    /\ IsStr(name)
    /\ \A c \in RecognizedCodes : ~EndsWith(name.s, c)

NullDerivation(p) ==
    /\ p.fields.sellingPrice = Null
    /\ p.fields.weightGrams = Null
    /\ p.fields.packageSize \in {Null, Absent}

\* C1: no PATCH call carries more than 10 records and every call but the
\* last issued carries exactly 10; when the run succeeds there are exactly
\* ceil(N/10) calls for N payloads, they concatenate to the payload list, and
\* N = 23 gives calls of sizes 10, 10, 3.
C1_ChunksOfTen ==
    /\ \A k \in DOMAIN PatchCalls :
          /\ Len(PatchCalls[k].batch) >= 1
          /\ Len(PatchCalls[k].batch) <= 10
          /\ k < Len(PatchCalls) => Len(PatchCalls[k].batch) = 10
    /\ Success =>
          /\ 10 * (Len(PatchCalls) - 1) < Len(updatePayloads)
          /\ Len(updatePayloads) <= 10 * Len(PatchCalls)
          /\ ConcatBatches(PatchCalls) = updatePayloads
          /\ committed = updatePayloads
          /\ Len(updatePayloads) = 23 =>
                [k \in DOMAIN PatchCalls |-> Len(PatchCalls[k].batch)] = <<10, 10, 3>>

C1_Witness ==
    /\ Success
    /\ Len(updatePayloads) = 23
    /\ Len(PatchCalls) = 3

RequestPassword ==
    IF request.body.t = "obj" THEN Field(request.body.fields, "password") ELSE Undefined

\* C2: remote calls are issued only when the request's password equals the
\* configured secret; every other POST request is answered 401 with no remote
\* call issued and no log created.
C2_RejectedBeforeAnyCall ==
    /\ calls # <<>> => RequestPassword = env
    /\ (request.method = "POST" /\ RequestPassword # env /\ pc # "start") =>
          /\ response.status = 401
          /\ calls = <<>>
          /\ ~logDetails.exists

CountLines(lines, text) == Cardinality({k \in DOMAIN lines : lines[k].text = text})

FailedPatch ==
    /\ pc = "done"
    /\ calls # <<>>
    /\ Last(calls).kind = "patch"
    /\ Last(calls).status = "fail"

\* C3: a failed call is the last call ever issued; when the PATCH of chunk k
\* fails, chunks 1..k-1 are what the remote table holds, chunk k was sent
\* once, and the log returned with the 500 has k-1 'Batch updated
\* successfully.' entries and the ERROR entry as its last line.
C3_AbortOnFailedChunk ==
    /\ \A k \in DOMAIN calls :
          calls[k].status = "fail" => (k = Len(calls) /\ pc = "done")
    /\ FailedPatch =>
          LET k == Len(PatchCalls) IN
          /\ \A j \in 1..(k - 1) : PatchCalls[j].status = "ok"
          /\ committed = ConcatBatches(SubSeq(PatchCalls, 1, k - 1))
          /\ committed = SubSeq(updatePayloads, 1, 10 * (k - 1))
          /\ \A j \in 1..(k - 1) :
                \A a \in DOMAIN PatchCalls[j].batch : \A b \in DOMAIN PatchCalls[k].batch :
                    PatchCalls[j].batch[a].id # PatchCalls[k].batch[b].id
          /\ response.status = 500
          /\ response.details = logDetails
          /\ CountLines(response.details.lines, "Batch updated successfully.") = k - 1
          /\ Last(response.details.lines) = Line("ERROR: Failed to update batch", 0)

C3_Witness ==
    /\ FailedPatch
    /\ Len(PatchCalls) = 3
    /\ Len(committed) = 20

\* C4: when the schema, SPT or MTB call fails, or the schema has no SPT
\* table, no PATCH call is issued and no call follows the failing step.
C4_NoWriteAfterFailedFetch ==
    /\ \A k \in DOMAIN calls :
          (calls[k].status = "fail" /\ calls[k].kind \in {"schema", "spt", "mtb"}) =>
              /\ k = Len(calls)
              /\ PatchCalls = <<>>
              /\ committed = <<>>
    /\ (calls # <<>> /\ calls[1].status = "ok" /\ ~TableFound(schema, SptTableName)) =>
          /\ Len(calls) = 1
          /\ committed = <<>>
          /\ response.status = 500

C4_Witness ==
    /\ pc = "done"
    /\ Len(calls) = 3
    /\ calls[3].kind = "mtb"
    /\ calls[3].status = "fail"
    /\ response.status = 500

\* C5: every error raised during an invocation ends it with status 500 and a
\* log whose last entry is 'ERROR: <message>', and no call follows the error.
C5_EveryErrorCaught ==
    thrown # "" =>
        /\ pc = "done"
        /\ response.status = 500
        /\ logDetails.exists
        /\ response.details = logDetails
        /\ Last(logDetails.lines) = Line("ERROR: " \o thrown, 0)
        /\ \A k \in DOMAIN calls : calls[k].status # "pending"

\* C6: no payload is ever built or written for a record whose link is empty
\* or unknown; such a record does not end the run: the loop goes on over the
\* records after it, only a record whose link resolves can raise, and a run
\* that succeeds has written exactly the records whose link resolves.
C6_LookupMissSkipsRecord ==
    /\ \A k \in DOMAIN updatePayloads : Resolvable(view[updatePayloads[k].id])
    /\ \A c \in DOMAIN calls : \A k \in DOMAIN calls[c].batch :
          Resolvable(view[calls[c].batch[k].id])
    /\ \A k \in DOMAIN committed : Resolvable(view[committed[k].id])
    /\ pc = "reconcile" => Ids(updatePayloads) = ResolvableIds(r - 1)
    /\ thrown = MatchError => Resolvable(view[r])
    /\ Success => Ids(committed) = ResolvableIds(Len(view))

C6_Witness ==
    /\ Success
    /\ committed # <<>>
    /\ \E k \in DOMAIN view : Field(view[k].fields, "linkedBaseProductId") = Str(<<>>)
    /\ \E k \in DOMAIN view : Field(view[k].fields, "linkedBaseProductId") = Str(TbX)
    /\ \E k \in DOMAIN view : Field(view[k].fields, "linkedBaseProductId") = Undefined

TableTriple(code, fields) ==
    CASE code = Cz450 -> Triple(Str(L450gBag), Field(fields, "Verkoop450g"), Num(600))
      [] code = Cz1000 -> Triple(Str(L1000gBag), Field(fields, "Verkoop1kg"), Num(1250))
      [] code = Cnb175 -> Triple(Str(L175gJar), Field(fields, "NutButter175g"), Num(400))
      [] code = Cnb365 -> Triple(Str(L365gJar), Field(fields, "NutButter365g"), Num(750))

\* C7: in each of the three files an internal name ending in -z450, -z1000,
\* -nb175 or -nb365 yields the table's package size, price field value and
\* weight.
C7_KnownSuffixTriples ==
    fout.fn = "variantRule" =>
        \A c \in RecognizedCodes :
            EndsWith(fin.name, <<"-">> \o c) =>
                /\ fout.strict = TableTriple(c, fin.fields)
                /\ fout.lenient = TableTriple(c, fin.fields)
                /\ fout.single = TableTriple(c, fin.fields)

\* C8: a record whose name does not end in a recognized code gets null
\* package size, price and weight, never raises, and its payload is built
\* and, when the run succeeds, written whenever its link resolves.
C8_UnknownSuffixAllNull ==
    /\ \A k \in DOMAIN updatePayloads :
          Unrecognized(view[updatePayloads[k].id]) => NullDerivation(updatePayloads[k])
    /\ thrown = MatchError => ~Unrecognized(view[r])
    /\ pc = "reconcile" =>
          \A k \in 1..(r - 1) :
              (Resolvable(view[k]) /\ Unrecognized(view[k])) =>
                  \E j \in DOMAIN updatePayloads : updatePayloads[j].id = k
    /\ Success =>
          \A k \in DOMAIN view :
              (Resolvable(view[k]) /\ Unrecognized(view[k])) =>
                  \E j \in DOMAIN committed :
                      committed[j].id = k /\ NullDerivation(committed[j])

C8_Witness ==
    /\ Success
    /\ \E j \in DOMAIN committed :
          /\ Field(view[committed[j].id].fields, "internalName") = Str(Nz4500)
          /\ NullDerivation(committed[j])
    /\ \E j \in DOMAIN committed :
          /\ Field(view[committed[j].id].fields, "internalName") = Str(Ntrail)
          /\ NullDerivation(committed[j])
    /\ \E j \in DOMAIN committed :
          Field(view[committed[j].id].fields, "internalName") = Str(Nplain)

\* C9: product type is 'Nut Bag' when the label contains 'Bag', else 'Nut
\* Butter Jar' when it contains 'Jar', else unset; category is one of three
\* values: 'Nut Butters' whenever product type is 'Nut Butter Jar', otherwise
\* 'Mixes' when the case-folded group text contains 'mix', otherwise 'Whole
\* Nuts'; for a null label and an absent group text too.
C9_ClassifierOrdered ==
    fout.fn = "classify" =>
        LET label == IF IsStr(fin.packageSize) THEN fin.packageSize.s ELSE <<>>
            group == IF IsStr(fin.group) THEN toLowerCase(fin.group.s) ELSE <<>>
            jar == fout.productType = Str(TNutButterJar)
        IN
        /\ includes(label, TBag) => fout.productType = Str(TNutBag)
        /\ (~includes(label, TBag) /\ includes(label, TJar)) => jar
        /\ (~includes(label, TBag) /\ ~includes(label, TJar)) => fout.productType = Null
        /\ \A cat \in {fout.categoryBatch, fout.categorySingle} :
              /\ cat \in {Str(TNutButters), Str(TMixes), Str(TWholeNuts)}
              /\ jar => cat = Str(TNutButters)
              /\ (~jar /\ includes(group, Tmix)) => cat = Str(TMixes)
              /\ (~jar /\ ~includes(group, Tmix)) => cat = Str(TWholeNuts)

C9_Witness ==
    /\ fout.fn = "classify"
    /\ fin.packageSize = Str(L365gJar)
    /\ fin.group = Str(TNutMix)
    /\ fout.productType = Str(TNutButterJar)
    /\ fout.categoryBatch = Str(TNutButters)
    /\ fout.categorySingle = Str(TNutButters)

\* the choice's label, normalized, is the label of no other choice of the field
UniqueLabel(choices, j) ==
    \A j2 \in DOMAIN choices :
        normalize(Str(choices[j2].name)) = normalize(Str(choices[j].name)) => j2 = j

\* C10: in both batch files a derived text that equals a choice label after
\* removing all whitespace and case-folding resolves to that choice's id.
C10_ResolutionInsensitive ==
    fout.fn = "resolve" =>
        \A j \in DOMAIN fin.choices :
            (/\ UniqueLabel(fin.choices, j)
             /\ normalize(fin.text) = normalize(Str(fin.choices[j].name))) =>
                /\ fout.strict = Ref(fin.choices[j].id)
                /\ fout.lenient = Ref(fin.choices[j].id)

\* the characters s[a..e] are a token: an uppercase letter at a word boundary,
\* then at least minTail uppercase letters or whitespace characters, ending
\* at a word boundary
Token(s, a, e, minTail) ==
    /\ a + minTail <= e
    /\ e <= Len(s)
    /\ IsUpper(s[a])
    /\ \A k \in (a + 1)..e : IsUpper(s[k]) \/ IsWhitespace(s[k])
    /\ WordBoundary(s, a)
    /\ WordBoundary(s, e + 1)

TokenStarts(s, from, minTail) ==
    {a \in from..Len(s) : \E e \in a..Len(s) : Token(s, a, e, minTail)}

Least(S) == CHOOSE x \in S : \A y \in S : x <= y
Greatest(S) == CHOOSE x \in S : \A y \in S : y <= x

\* the tokens of s from position `from` on: leftmost first, each as long as
\* it can be, the search going on after the token's end
RECURSIVE TokensFrom(_, _, _)
TokensFrom(s, from, minTail) ==
    IF TokenStarts(s, from, minTail) = {} THEN <<>>
    ELSE LET a == Least(TokenStarts(s, from, minTail))
             e == Greatest({e \in a..Len(s) : Token(s, a, e, minTail)})
         IN  <<SubSeq(s, a, e)>> \o TokensFrom(s, e + 1, minTail)

\* a token trimmed, lower-cased, its first character capitalised
TitleOf(token) ==
    LET t == trim(token) IN
    [k \in 1..Len(t) |-> IF k = 1 THEN toUpperChar(toLowerChar(t[1]))
                         ELSE toLowerChar(t[k])]

ExpectedNames(ingredients, minTail) ==
    LET s == IF IsStr(ingredients) THEN ingredients.s ELSE <<>>
        ts == TokensFrom(s, 1, minTail)
    IN  [k \in DOMAIN ts |-> Str(TitleOf(ts[k]))]

NamesOf(list) == [k \in DOMAIN list |-> list[k].name]

TSoya == <<"S","o","y","a">>
TMilk == <<"M","i","l","k">>

AllergensAre(minTail) ==
    fout.fn = "allergens" =>
        /\ NamesOf(fout.batch) = ExpectedNames(fin.ingredients, minTail)
        /\ fout.single = ExpectedNames(fin.ingredients, minTail)
        /\ (~IsStr(fin.ingredients) \/ fin.ingredients = Str(<<>>)) => fout.batch = <<>>
        /\ fin.ingredients = Str(TIngredients) =>
              NamesOf(fout.batch) = <<Str(TSoya), Str(TMilk)>>

\* C11 (as claimed): one name per token of one or more uppercase letters,
\* optionally with whitespace inside, between word boundaries, in order and
\* with repeats kept; no text gives the empty list and 'SOYA, almonds, MILK
\* powder' gives Soya, Milk.
C11_AllCapsTokensOneOrMore ==
    AllergensAre(0)

\* C11 (amended): the token is an uppercase letter followed by at least one
\* more uppercase letter or whitespace character, so a capital letter standing
\* alone is no token; the rest as claimed.
C11_AllCapsTokensTwoOrMore ==
    AllergensAre(1)

C11_Witness ==
    /\ fout.fn = "allergens"
    /\ fin.ingredients = Str(TIngredients)
    /\ NamesOf(fout.batch) = <<Str(TSoya), Str(TMilk)>>
    /\ fout.single = <<Str(TSoya), Str(TMilk)>>

Ended == pc \in {"done", "crashed"}

\* C12: an invocation that has ended has sent its one response, and none
\* before; the response is the method rejection, the authorization failure
\* (without log), the success with the log, or the failure with the error
\* and the log; the authorization failure comes before any call, log or
\* error, and a success only when every call issued succeeded.
C12_OneResponseOfFourKinds ==
    /\ ~Ended => response = NoResponse
    /\ Ended =>
          \/ response.status = 405 /\ response.details = NoLog
          \/ response.status = 401 /\ response.details = NoLog
          \/ /\ response.status = 200
             /\ response.details.exists
             /\ response.details = logDetails
          \/ /\ response.status = 500
             /\ response.text = thrown
             /\ response.details.exists
             /\ response.details = logDetails
    /\ response.status = 401 => (calls = <<>> /\ thrown = "" /\ ~logDetails.exists)
    /\ response.status = 200 => \A k \in DOMAIN calls : calls[k].status = "ok"

\* C13: the calls of a run are, in this order, the schema fetch, the SPT view
\* fetch, the MTB fetch and then the writes; every call but the last issued
\* has completed successfully, so at most one is in flight; a write is issued
\* only after the MTB fetch succeeded and every view record was reconciled.
C13_CallsInFixedOrder ==
    /\ \A k \in DOMAIN calls :
          calls[k].kind = (CASE k = 1 -> "schema" [] k = 2 -> "spt"
                             [] k = 3 -> "mtb" [] OTHER -> "patch")
    /\ \A k \in 1..(Len(calls) - 1) : calls[k].status = "ok"
    /\ calls # <<>> => (request.method = "POST" /\ RequestPassword = env)
    /\ PatchCalls # <<>> =>
          /\ Len(calls) >= 4
          /\ calls[3].status = "ok"
          /\ r = Len(view) + 1
          /\ Ids(updatePayloads) = ResolvableIds(Len(view))
    /\ Success => Len(calls) = 3 + Len(PatchCalls)

C13_Witness ==
    /\ pc = "patch"
    /\ Len(calls) = 5
    /\ calls[5].status = "pending"
    /\ \A k \in 1..4 : calls[k].status = "ok"

\* C15: on a successful run the written payloads are, in view order, one for
\* each record whose link resolves, also when the record's derived values are
\* all null; no other id is written and the count of the success message is
\* the number of payloads written.
C15_OnePayloadPerResolvableRecord ==
    /\ pc = "reconcile" => Len(updatePayloads) = Len(ResolvableIds(r - 1))
    /\ Success =>
          /\ Ids(committed) = ResolvableIds(Len(view))
          /\ committed = updatePayloads
          /\ \A a \in DOMAIN committed : \A b \in DOMAIN committed :
                committed[a].id = committed[b].id => a = b
          /\ response.count = Len(committed)

C15_Witness ==
    /\ Success
    /\ response.count = 13
    /\ Len(view) = 23
    /\ \E k \in DOMAIN committed : NullDerivation(committed[k])

\* C18: once the view fetch has answered with zero records the run has ended
\* with the success 'No records to update.' carrying the log, and neither
\* the MTB fetch nor a write was issued.
C18_EmptyViewEndsRun ==
    (Len(view) = 0 /\ Len(calls) >= 2 /\ calls[2].status = "ok") =>
        /\ pc = "done"
        /\ response.status = 200
        /\ response.text = "No records to update."
        /\ response.details = logDetails
        /\ Last(logDetails.lines) = NoRecordsLine(variant)
        /\ Len(calls) = 2
        /\ committed = <<>>

C18_Witness ==
    /\ Len(view) = 0
    /\ pc = "done"
    /\ response.text = "No records to update."
    /\ Len(calls) = 2

SelectFields ==
    {"packageSize", "productType", "category", "baseProductGroup", "countryOfOrigin"}

\* the master fields the payload p was built from
MasterOf(p) == mtbLookup[Field(view[p.id].fields, "linkedBaseProductId")]

\* the text the handler derives for a field of payload p
DerivedText(p, field) ==
    LET f == MasterOf(p)
        v == variantRule(variant, Field(view[p.id].fields, "internalName").s, f)
        productType == productTypeOf(v.packageSize)
    IN  CASE field = "packageSize" -> v.packageSize
          [] field = "productType" -> productType
          [] field = "category" -> categoryOf(productType, groupTextOf(groupNameOf(f)))
          [] field = "baseProductGroup" -> groupNameOf(f)
          [] OTHER -> Field(f, "countryOfOrigin")

\* the key under which the running handler looks a text up
LookupKey(text) == IF variant = "strict" THEN normalize(text) ELSE text.s

\* the text is a key of the option map of the field
IsKey(field, text) ==
    /\ field \in DOMAIN selectOptions
    /\ variant = "strict" \/ (IsStr(text) /\ text.s # <<>>)
    /\ LookupKey(text) \in DOMAIN selectOptions[field]

\* the fields of one payload obey the resolution rule on the given fields
ResolvedOn(p, fields) ==
    \A field \in fields :
        LET text == DerivedText(p, field)
            val == p.fields[field]
        IN  /\ field \in DOMAIN selectOptions =>
                  /\ IsKey(field, text) <=> val.t = "ref"
                  /\ IsKey(field, text) => val = Ref(selectOptions[field][LookupKey(text)])
            /\ (variant = "strict" /\ ~IsKey(field, text)) => val = Absent
            /\ (variant = "lenient" /\ field = "packageSize" /\ ~IsKey(field, text)) =>
                  (val = text /\ (val = Null \/ IsStr(val)))

\* C14 as stated: in every payload of either batch handler each of the five
\* select fields carries { id } exactly when its derived text is a key of the
\* field's option map, with the map's value; the strict handler leaves an
\* unmatched field unset and the lenient one writes packageSize raw or null.
C14_SelectFieldsRefExactlyWhenKey ==
    \A k \in DOMAIN updatePayloads : ResolvedOn(updatePayloads[k], SelectFields)

LenientResolved == {"packageSize", "productType", "category"}

\* the part of C14 that holds: the rule is obeyed on the five fields by the
\* strict handler and on packageSize, productType and category by the lenient
\* one, which never sets baseProductGroup and copies countryOfOrigin from the
\* master record whatever the option map holds.
SelectFieldsRefWhereResolved ==
    \A k \in DOMAIN updatePayloads :
        LET p == updatePayloads[k] IN
        IF variant = "strict"
        THEN ResolvedOn(p, SelectFields)
        ELSE /\ ResolvedOn(p, LenientResolved)
             /\ p.fields.baseProductGroup = Absent
             /\ p.fields.countryOfOrigin = Field(MasterOf(p), "countryOfOrigin")

OkPatches == SelectSeq(PatchCalls, LAMBDA c : c.status = "ok")

\* C16: one delay is started after each successful write and none after a
\* failed one; write k+1 is issued only when the delay started after write k
\* has elapsed, and no call is in flight while a delay runs.
C16_DelayBetweenWrites ==
    /\ Len(timers) = Len(OkPatches)
    /\ \A k \in DOMAIN PatchCalls :
          k >= 2 => (k - 1 \in DOMAIN timers /\ timers[k - 1] = "elapsed")
    /\ \A k \in DOMAIN timers :
          timers[k] = "running" =>
              /\ k = Len(timers)
              /\ pc = "delay"
              /\ calls[Len(calls)].status = "ok"
    /\ FailedPatch => (pc = "done" /\ Len(timers) = Len(PatchCalls) - 1)

C16_Witness ==
    /\ Len(PatchCalls) = 3
    /\ PatchCalls[3].status = "pending"
    /\ timers = <<"elapsed", "elapsed">>

\* number of records of a view whose link resolves
ResolvableCount(records) ==
    Cardinality({k \in DOMAIN records : Resolvable(records[k])})

\* the payloads all belong to view records of invocation id
OwnPayloads(id, payloads) ==
    \A k \in DOMAIN payloads : payloads[k].id[1] = id

\* C17: whatever the interleaving, an invocation that has started issued its
\* own schema fetch; its option map comes from the schema it was answered,
\* its log holds exactly the lines it pushed itself, its payload list and its
\* writes hold only records of the view it fetched, and its response carries
\* its own log and its own count.
C17_InvocationsShareNothing ==
    \A id \in DOMAIN runs :
        LET run == runs[id]
            f == frames[Own(id)]
        IN  run.pc # "start" =>
            /\ run.calls[1].kind = "schema"
            /\ f.logDetails.lines = run.pushed
            /\ Len(run.calls) >= 2 =>
                  f.selectOptions = getSelectOptions(variant, run.schema, SptTableName)
            /\ (Len(run.calls) >= 3 /\ run.calls[3].status = "ok") =>
                  f.mtbLookup = mtbLookupOf(MtbRecords)
            /\ OwnPayloads(id, f.updatePayloads)
            /\ \A k \in DOMAIN run.calls : OwnPayloads(id, run.calls[k].batch)
            /\ run.pc = "done" =>
                  /\ run.response.details.lines = run.pushed
                  /\ run.response.text = "Successfully processed and updated records." =>
                        run.response.count = ResolvableCount(run.view)

\* both invocations have a write in flight, of different payload lists built
\* from different option maps
C17_Witness ==
    /\ DOMAIN runs = Invocations
    /\ runs[1].pc = "patch"
    /\ runs[2].pc = "patch"
    /\ runs[1].schema # runs[2].schema
    /\ Len(frames[1].updatePayloads) = 2
    /\ Len(frames[2].updatePayloads) = 1

====
